---- MODULE Spec2Model ----
(***************************************************************************)
(* A model of Baker (src/baker.py), an incremental build driver for C++    *)
(* sources that use modules and header units.  One run of the program is   *)
(* Baker.__init__: for every target of the Bakerfile, classify the         *)
(* sources, precompile header units, resolve the dependency graph, reduce  *)
(* it to a tree, walk the tree compiling what is stale, and link.          *)
(*                                                                         *)
(* Python values are modelled as follows.                                  *)
(*  - A Node is its creation index in gen_classes (1 for the first source  *)
(*    of the target); None is 0.                                           *)
(*  - A string that names a dependency is a record [tag, m, p, i]:         *)
(*      "A"     is [tag |-> "str", m |-> "A", p |-> "",  i |-> 0]          *)
(*      "A:x"   is [tag |-> "str", m |-> "A", p |-> "x", i |-> 0]          *)
(*      "@2"    is [tag |-> "@",   m |-> "",  p |-> "",  i |-> 2]          *)
(*      "%A,1"  is [tag |-> "%",   m |-> "A", p |-> "",  i |-> 1]          *)
(*    and an element of a children list that is already a Node is          *)
(*      [tag |-> "node", m |-> "", p |-> "", i |-> n].                     *)
(*    Positions are 1-based here and 0-based in the source.                *)
(*  - A module identity is [m, p]: "A" is [m |-> "A", p |-> ""], "A:x" is  *)
(*    [m |-> "A", p |-> "x"]; str.split(':')[0] is the field m.            *)
(*  - A source path "dir/stem.ext" is the fields dir (the sequence of      *)
(*    directory components), stem and ext of the classification record.    *)
(***************************************************************************)
EXTENDS Integers, Sequences, FiniteSets, TLC

VARIABLES
    options,                  \* self.options['targets']: the Bakerfile's targets, in order
    args,                     \* self.args: [rebuild, mode, run]
    fs,                       \* the file system: modification times and artifacts
    fs0,                      \* history: the file system when the run began
    pc,                       \* position of make_targets
    ti,                       \* index of the target being built
    nodes,                    \* the Nodes of this target: nodes[n] is Node n's data
    classes,                  \* self.classes
    root_node,                \* self.root_node
    header_units,             \* self.header_units
    hu_left,                  \* headers make_header_units has still to visit
    children,                 \* children[n]: Node n's children list
    parent,                   \* parent[n]: Node n's parent
    post,                     \* post[n]: Node n's data['post']
    node_depth,               \* self.node_depth
    last_node,                \* self.last_node
    last_node_depth,          \* self.last_node_depth
    node,                     \* compile_all's cursor
    siblings_left,            \* compile_all's siblings_left
    triggered_recompile,      \* compile_all's triggered_recompile
    triggered_recompile_next, \* compile_all's triggered_recompile_next
    compiles,                 \* self.compiles
    err,                      \* the exception that ended the run, or "none"
    cmds,                     \* history: every external command issued, in order
    evals,                    \* history: the Nodes compile_all evaluated, per target
    reach                     \* history: fill_children's (parent, child, depth) visits

vars == <<options, args, fs, fs0, pc, ti, nodes, classes, root_node, header_units, hu_left,
          children, parent, post, node_depth, last_node, last_node_depth, node,
          siblings_left, triggered_recompile, triggered_recompile_next, compiles,
          err, cmds, evals, reach>>

(***************************************************************************)
(* Values                                                                  *)
(***************************************************************************)
None == 0

\* Modification times: a file is old or was written now.
Old == 0

MaxTime == 1

\* The most import declarations the sources of one generated target have.
MaxImports == 3

NoList == <<>>

Absent == -1

Str(m, p) == [tag |-> "str", m |-> m, p |-> p, i |-> 0]

PlainRef(index) == [tag |-> "@", m |-> "", p |-> "", i |-> index]

ImplRef(key, index) == [tag |-> "%", m |-> key.m, p |-> key.p, i |-> index]

NodeRef(n) == [tag |-> "node", m |-> "", p |-> "", i |-> n]

Key(child) == [m |-> child.m, p |-> child.p]

\* The module identity "m" or "m:p" of a module unit.
Name(m, p) == [m |-> m, p |-> p]

\* The module identity of a plain source: none, which differs from every name.
NoModule == Name("", "")

Put(f, k, v) == [x \in (DOMAIN f) \cup {k} |-> IF x = k THEN v ELSE f[x]]

Range(s) == {s[i] : i \in DOMAIN s}

Perms(S) == {s \in [1..Cardinality(S) -> S] : \A i, j \in 1..Cardinality(S) : s[i] = s[j] => i = j}

RemoveAt(s, index) == [i \in 1..(Len(s) - 1) |-> IF i < index THEN s[i] ELSE s[i + 1]]

IsModuleType(type) == type \in {"module", "module_partition"}

(***************************************************************************)
(* gen_classes                                                             *)
(***************************************************************************)
EmptyClasses ==
    [plain |-> {}, module |-> <<>>, module_partition |-> <<>>, module_impl |-> <<>>,
     impl_keys |-> <<>>]

\* One iteration of gen_classes' loop over the sources: st is the state after
\* the earlier iterations.
GenClassesStep(st, source, index) ==
    IF ~(source.ext \in {".cpp", ".cppm"}) THEN [st EXCEPT !.err = "BadSuffix"]
    ELSE IF Len(source.dir) > 1 \/ Len(source.dir) = 0 THEN [st EXCEPT !.err = "BadDirectory"]
    ELSE
        LET n == index
            module == source.module
            c == st.classes
            hu == st.header_units \cup source.header_units
            c2 == IF source.type = "plain" THEN [c EXCEPT !.plain = @ \cup {n}]
                  ELSE IF source.type = "module_impl" THEN
                      IF module \notin DOMAIN c.module_impl
                      THEN [c EXCEPT !.module_impl = Put(@, module, <<n>>),
                                     !.impl_keys = Append(@, module)]
                      ELSE [c EXCEPT !.module_impl = Put(@, module, c.module_impl[module] \o <<n>>)]
                  ELSE IF source.type = "module" THEN [c EXCEPT !.module = Put(@, module, n)]
                  ELSE IF source.type = "module_partition"
                      THEN [c EXCEPT !.module_partition = Put(@, module, n)]
                  ELSE c
            st2 == [st EXCEPT !.classes = c2, !.header_units = hu, !.count = n]
        IN  IF ~(source.type \in {"plain", "module_impl", "module", "module_partition"})
            THEN [st2 EXCEPT !.err = "UnknownType"]
            ELSE IF index = 1
            THEN IF source.type # "plain" \/ source.ext # ".cpp"
                 THEN [st2 EXCEPT !.err = "RootNotPlain"]
                 ELSE [st2 EXCEPT !.root_node = n]
            ELSE st2

RECURSIVE GenClassesLoop(_, _, _)
GenClassesLoop(st, sources, index) ==
    IF index > Len(sources) \/ st.err # "none" THEN st
    ELSE GenClassesLoop(GenClassesStep(st, sources[index], index), sources, index + 1)

\* gen_classes up to the conversion of the set of plain Nodes to a list.
gen_classes(sources, root_before) ==
    GenClassesLoop([classes |-> EmptyClasses, header_units |-> {}, count |-> 0,
                    root_node |-> root_before, err |-> "none"], sources, 1)

(***************************************************************************)
(* build_dependency_tree                                                   *)
(***************************************************************************)
RECURSIVE AttachPlainLoop(_, _, _, _)
AttachPlainLoop(ch, plain, root, index) ==
    IF index > Len(plain) THEN ch
    ELSE AttachPlainLoop(IF plain[index] # root THEN Append(ch, PlainRef(index)) ELSE ch,
                         plain, root, index + 1)

\* The root's children list after attach_plain_sources.
attach_plain_sources(ch, c, root) == AttachPlainLoop(ch, c.plain, root, 1)

RECURSIVE AttachImplLoop(_, _, _, _)
AttachImplLoop(ch, c, k, index) ==
    IF k > Len(c.impl_keys) THEN ch
    ELSE IF index > Len(c.module_impl[c.impl_keys[k]]) THEN AttachImplLoop(ch, c, k + 1, 1)
    ELSE AttachImplLoop(Append(ch, ImplRef(c.impl_keys[k], index)), c, k, index + 1)

\* attach_module_impls putting the implementation units first in the list.
attach_module_impls_first(ch, c) == AttachImplLoop(<<>>, c, 1, 1) \o ch

\* The root's children list after attach_module_impls.
attach_module_impls(ch, c) == AttachImplLoop(ch, c, 1, 1)

\* Resolve without the check of line 280: a partition resolves for any importer.
ResolveAnyPartition(c, module, child) ==
    IF child.tag = "str" /\ Key(child) \in DOMAIN c.module
    THEN [err |-> "none", n |-> c.module[Key(child)]]
    ELSE IF child.tag = "str" /\ Key(child) \in DOMAIN c.module_partition
    THEN [err |-> "none", n |-> c.module_partition[Key(child)]]
    ELSE IF child.tag = "%"
    THEN [err |-> "none", n |-> c.module_impl[Key(child)][child.i]]
    ELSE IF child.tag = "@"
    THEN [err |-> "none", n |-> c.plain[child.i]]
    ELSE [err |-> "UnknownModule", n |-> None]

\* The branches of fill_children's first loop for one child that is a string:
\* the Node it resolves to, or the error raised.
Resolve(c, module, child) ==
    IF child.tag = "str" /\ Key(child) \in DOMAIN c.module
    THEN [err |-> "none", n |-> c.module[Key(child)]]
    ELSE IF child.tag = "str" /\ Key(child) \in DOMAIN c.module_partition
    THEN IF module.m # child.m
         THEN [err |-> "ForeignPartition", n |-> None]
         ELSE [err |-> "none", n |-> c.module_partition[Key(child)]]
    ELSE IF child.tag = "%"
    THEN [err |-> "none", n |-> c.module_impl[Key(child)][child.i]]
    ELSE IF child.tag = "@"
    THEN [err |-> "none", n |-> c.plain[child.i]]
    ELSE [err |-> "UnknownModule", n |-> None]

\* fill_children's first loop, from position index on.
RECURSIVE ResolveLoop(_, _, _, _)
ResolveLoop(S, c, n, index) ==
    IF index > Len(S.children[n]) \/ S.err # "none" THEN S
    ELSE LET child == S.children[n][index]
         IN  IF child.tag = "node" THEN ResolveLoop(S, c, n, index + 1)
             ELSE LET r == Resolve(c, S.module[n], child)
                  IN  IF r.err # "none" THEN [S EXCEPT !.err = r.err]
                      ELSE ResolveLoop([S EXCEPT !.children[n][index] = NodeRef(r.n)],
                                       c, n, index + 1)

\* Deeper with '>=' for '>': a visit at an equal depth takes the child over.
DeeperOrEqual(nd, child, depth) == nd[child] = Absent \/ depth >= nd[child]

\* The test of fill_children's second loop: the child takes this parent.
Deeper(nd, child, depth) == nd[child] = Absent \/ depth > nd[child]

RECURSIVE fill_children(_, _, _, _)
RECURSIVE FillLoop(_, _, _, _, _)
\* fill_children's second loop, from position index on.
FillLoop(S, c, n, depth, index) ==
    IF index > Len(S.children[n]) \/ S.err # "none" THEN S
    ELSE LET child == S.children[n][index].i
             S1 == IF Deeper(S.node_depth, child, depth)
                   THEN [S EXCEPT !.node_depth[child] = depth, !.parent[child] = n]
                   ELSE S
             S2 == [S1 EXCEPT !.reach = Append(@, [parent |-> n, child |-> child, depth |-> depth])]
         IN  FillLoop(fill_children(S2, c, child, depth + 1), c, n, depth, index + 1)

\* fill_children(node, depth).  A path as deep as there are Nodes repeats a
\* Node, so the recursion along it never returns: Python ends it with a
\* RecursionError.
fill_children(S, c, n, depth) ==
    IF depth >= Cardinality(DOMAIN S.module) THEN [S EXCEPT !.err = "RecursionError"]
    ELSE LET S1 == IF depth > S.last_node_depth
                   THEN [S EXCEPT !.last_node_depth = depth, !.last_node = n]
                   ELSE S
             S2 == ResolveLoop(S1, c, n, 1)
         IN  FillLoop(S2, c, n, depth, 1)

\* build_dependency_tree: the state of the graph after it.
build_dependency_tree(data, c, root, last_before) ==
    LET ch0 == [n \in DOMAIN data |-> data[n].post]
        ch1 == [ch0 EXCEPT ![root] = attach_module_impls(attach_plain_sources(@, c, root), c)]
        S0 == [children |-> ch1,
               parent |-> [n \in DOMAIN data |-> None],
               module |-> [n \in DOMAIN data |-> data[n].module],
               node_depth |-> [n \in DOMAIN data |-> Absent],
               last_node |-> last_before,
               last_node_depth |-> -1,
               err |-> "none",
               reach |-> <<>>]
    IN  fill_children(S0, c, root, 0)

(***************************************************************************)
(* build_compile_tree                                                      *)
(***************************************************************************)
\* clip_redundant's while loop deleting nothing.
ClipNothing(ch, par, n) == ch

\* clip_redundant's while loop on one children list.
RECURSIVE ClipLoop(_, _, _)
ClipLoop(ch, par, n) ==
    LET stale == {index \in DOMAIN ch : par[ch[index].i] # n}
    IN  IF stale = {} THEN ch
        ELSE ClipLoop(RemoveAt(ch, CHOOSE index \in stale : \A j \in stale : index <= j), par, n)

RECURSIVE clip_redundant(_, _, _)
RECURSIVE ClipChildren(_, _, _, _)
ClipChildren(ch, par, n, index) ==
    IF index > Len(ch[n]) THEN ch
    ELSE ClipChildren(clip_redundant(ch, par, ch[n][index].i), par, n, index + 1)

\* clip_redundant without its second loop: only the Node's own list is clipped.
clip_own_list_only(ch, par, n) == [ch EXCEPT ![n] = ClipLoop(@, par, n)]

clip_redundant(ch, par, n) ==
    ClipChildren([ch EXCEPT ![n] = ClipLoop(@, par, n)], par, n, 1)

\* MergePost with '=' for '+=': the partition's list replaces the interface's.
MergePostAssigns(p, c_node, c_partition_node) == [p EXCEPT ![c_node] = p[c_partition_node]]

\* The statement of fix_module_partition_deps' loop that extends a list.
MergePost(p, c_node, c_partition_node) == [p EXCEPT ![c_node] = @ \o p[c_partition_node]]

RECURSIVE fix_module_partition_deps(_, _, _, _, _)
RECURSIVE FixLoop(_, _, _, _, _, _)
FixLoop(p, ch, data, c, n, index) ==
    IF index > Len(ch[n]) THEN p
    ELSE LET child == ch[n][index].i
             p1 == IF data[n].type = "module" /\ data[child].type = "module_partition"
                   THEN MergePost(p, c.module[data[n].module],
                                  c.module_partition[data[child].module])
                   ELSE p
         IN  FixLoop(fix_module_partition_deps(p1, ch, data, c, child), ch, data, c, n, index + 1)

fix_module_partition_deps(p, ch, data, c, n) == FixLoop(p, ch, data, c, n, 1)

(***************************************************************************)
(* compile_all, compile, link                                              *)
(***************************************************************************)
\* The path of a source's object with its '.o' removed: removesuffixes has
\* taken '.cpp' or '.cppm' off the file name.
ObjPath(source) == [dir |-> source.dir, stem |-> source.stem, sfx |-> ""]

\* The path collect_modules gives for a module's interface artifact, with its
\* '.pcm' removed: only '.cppm' is taken off the file name.
ModuleFlagPath(source) ==
    [dir |-> source.dir, stem |-> source.stem,
     sfx |-> IF source.ext = ".cppm" THEN "" ELSE source.ext]

\* The path of the source file itself.
SrcPath(source) == [dir |-> source.dir, stem |-> source.stem, sfx |-> source.ext]

exists(artifacts, path) == artifacts[path] # Absent

\* is_later with '>=' for '>': equal modification times count as later.
is_later_or_equal(mtime, mtime2) == mtime >= mtime2

is_later(mtime, mtime2) == mtime > mtime2

\* The condition without its first disjunct: neither the rebuild argument nor
\* a compile on the level below forces the compile.
NeedsCompileUntriggered(f, source, triggered) ==
    LET target == ObjPath(source)
        is_module == IsModuleType(source.type)
    IN  \/ (~exists(f.obj, target) \/ is_later(f.src[SrcPath(source)], f.obj[target]))
        \/ (is_module /\ (~exists(f.bmi, target) \/ is_later(f.src[SrcPath(source)], f.bmi[target])))

\* The condition of compile_all under which the Node is compiled.
NeedsCompile(f, source, triggered) ==
    LET target == ObjPath(source)
        is_module == IsModuleType(source.type)
    IN  \/ triggered
        \/ (~exists(f.obj, target) \/ is_later(f.src[SrcPath(source)], f.obj[target]))
        \/ (is_module /\ (~exists(f.bmi, target) \/ is_later(f.src[SrcPath(source)], f.bmi[target])))

RECURSIVE collect_modules(_, _, _, _)
RECURSIVE CollectModulesLoop(_, _, _, _, _)
CollectModulesLoop(ch, data, n, collected, index) ==
    IF index > Len(ch[n]) THEN collected
    ELSE CollectModulesLoop(ch, data, n,
                            collect_modules(ch, data, ch[n][index].i, collected), index + 1)

collect_modules(ch, data, n, collected) ==
    CollectModulesLoop(ch, data, n,
        IF IsModuleType(data[n].type)
        THEN Append(collected, [module |-> data[n].module, path |-> ModuleFlagPath(data[n])])
        ELSE collected, 1)

RECURSIVE collect_objects(_, _, _, _)
RECURSIVE CollectObjectsLoop(_, _, _, _, _)
CollectObjectsLoop(ch, data, n, collected, index) ==
    IF index > Len(ch[n]) THEN collected
    ELSE CollectObjectsLoop(ch, data, n,
                            collect_objects(ch, data, ch[n][index].i, collected), index + 1)

collect_objects(ch, data, n, collected) ==
    CollectObjectsLoop(ch, data, n, Append(collected, ObjPath(data[n])), 1)

\* The time a command that runs now gives the files it writes.
Now == MaxTime

\* What a successful compile of the source writes.
CompileWrites(f, source) ==
    [f EXCEPT !.obj[ObjPath(source)] = Now,
              !.bmi[ObjPath(source)] = IF IsModuleType(source.type) THEN Now ELSE @]

\* Baker.run without the check of the exit status.
RunNeverRaises(ok) == FALSE

\* Baker.run: the command is issued; a non-zero exit status raises.
RunRaises(ok) == ~ok

Command(kind, n, header, objs, mods, ok) ==
    [kind |-> kind, target |-> ti, n |-> n, header |-> header, objs |-> objs,
     mods |-> mods, ok |-> ok]

Fail(kind) ==
    /\ pc' = "error"
    /\ err' = kind

(***************************************************************************)
(* make_targets, one action per step                                       *)
(***************************************************************************)
graph == <<children, parent, post, node_depth, last_node, last_node_depth, reach>>

cursor == <<node, siblings_left, triggered_recompile, triggered_recompile_next, compiles>>

world == <<options, args, fs0>>

sourcesOf == <<nodes, classes, root_node, header_units>>

\* The check of make_targets that the targets are a dict.
MakeTargets ==
    /\ pc = "make_targets"
    /\ IF ~options.is_dict THEN Fail("TargetsNotDict") ELSE pc' = "target" /\ err' = err
    /\ UNCHANGED <<world, fs, ti, sourcesOf, hu_left, graph, cursor, cmds, evals>>

NextTarget ==
    /\ ti' = ti + 1
    /\ pc' = "target"
    /\ err' = err

\* The head of make_targets' loop, gen_classes and make_directories.
GenClasses ==
    /\ pc = "target"
    /\ ti <= Len(options.targets)
    /\ LET target == options.targets[ti]
           st == gen_classes(target.sources, root_node)
       IN  IF ~target.is_list
           THEN Fail("SourcesNotList")
                /\ UNCHANGED <<sourcesOf, hu_left, children, parent, post>>
           ELSE IF st.err # "none"
           THEN Fail(st.err)
                /\ UNCHANGED <<sourcesOf, hu_left, children, parent, post>>
           ELSE \E order \in Perms(st.classes.plain) :
                /\ classes' = [st.classes EXCEPT !.plain = order]
                /\ header_units' = st.header_units
                /\ hu_left' = st.header_units
                /\ root_node' = st.root_node
                /\ nodes' = target.sources
                /\ children' = [n \in DOMAIN target.sources |-> target.sources[n].post]
                /\ parent' = [n \in DOMAIN target.sources |-> None]
                /\ post' = [n \in DOMAIN target.sources |-> target.sources[n].post]
                /\ pc' = "header_units"
                /\ err' = err
    /\ UNCHANGED <<world, fs, ti, node_depth, last_node, last_node_depth, reach, cursor,
                   cmds, evals>>

\* One iteration of make_header_units' loop.
MakeHeaderUnits ==
    /\ pc = "header_units"
    /\ \E header \in hu_left :
        IF header \in fs.hu
        THEN /\ hu_left' = hu_left \ {header}
             /\ UNCHANGED <<fs, cmds, pc, err>>
        ELSE \E ok \in BOOLEAN :
             /\ cmds' = Append(cmds, Command("precompile", None, header, <<>>, <<>>, ok))
             /\ IF RunRaises(ok)
                THEN Fail("CommandFailed") /\ UNCHANGED <<fs, hu_left>>
                ELSE /\ fs' = [fs EXCEPT !.hu = @ \cup {header}]
                     /\ hu_left' = hu_left \ {header}
                     /\ UNCHANGED <<pc, err>>
    /\ UNCHANGED <<world, ti, sourcesOf, graph, cursor, evals>>

\* build_dependency_tree, and the walk that 'deptree' asks for.
BuildDependencyTree ==
    /\ pc = "header_units"
    /\ hu_left = {}
    /\ LET S == build_dependency_tree(nodes, classes, root_node, last_node)
       IN  IF S.err # "none"
           THEN Fail(S.err) /\ UNCHANGED <<graph, ti>>
           ELSE /\ children' = S.children
                /\ parent' = S.parent
                /\ node_depth' = S.node_depth
                /\ last_node' = S.last_node
                /\ last_node_depth' = S.last_node_depth
                /\ reach' = S.reach
                /\ post' = post
                /\ IF args.mode = "deptree"
                   THEN NextTarget
                   ELSE pc' = "compile_tree" /\ err' = err /\ ti' = ti
    /\ UNCHANGED <<world, fs, sourcesOf, hu_left, cursor, cmds, evals>>

\* build_compile_tree, and the walk that 'tree' asks for.
BuildCompileTree ==
    /\ pc = "compile_tree"
    /\ LET clipped == clip_redundant(children, parent, root_node)
       IN  /\ children' = clipped
           /\ post' = fix_module_partition_deps(post, clipped, nodes, classes, root_node)
    /\ IF args.mode = "tree" THEN NextTarget ELSE pc' = "compile_all" /\ err' = err /\ ti' = ti
    /\ UNCHANGED <<world, fs, sourcesOf, hu_left, parent, node_depth, last_node,
                   last_node_depth, reach, cursor, cmds, evals>>

\* A copy of the Node's own children list in place of its parent's.
OwnChildren(n) == IF parent[n] # None THEN children[n] ELSE NoList

\* The copy compile_all takes of the list the Node is in.
SiblingsOf(n) == IF parent[n] # None THEN children[parent[n]] ELSE NoList

\* compile_all up to its loop.
CompileAllBegin ==
    /\ pc = "compile_all"
    /\ compiles' = 0
    /\ triggered_recompile' = args.rebuild
    /\ triggered_recompile_next' = FALSE
    /\ node' = last_node
    /\ siblings_left' = SiblingsOf(last_node)
    /\ pc' = "compile_loop"
    /\ UNCHANGED <<world, fs, ti, sourcesOf, hu_left, graph, err, cmds, evals>>

\* list.remove: the list without the first occurrence of the Node.
Remove(list, n) ==
    RemoveAt(list, CHOOSE index \in DOMAIN list :
                       list[index].i = n /\ \A j \in DOMAIN list : list[j].i = n => index <= j)

\* The end of one iteration of compile_all's loop: leave at the root, else
\* move to the next sibling or up to the parent.
Advance(next) ==
    IF node = root_node
    THEN /\ pc' = "link"
         /\ err' = err
         /\ UNCHANGED <<node, siblings_left, triggered_recompile>>
    ELSE IF ~(\E index \in DOMAIN siblings_left : siblings_left[index].i = node)
    THEN Fail("ValueError") /\ UNCHANGED <<node, siblings_left, triggered_recompile>>
    ELSE LET left == Remove(siblings_left, node)
         IN  /\ pc' = pc
             /\ err' = err
             /\ IF Len(left) > 0
                THEN /\ node' = left[1].i
                     /\ siblings_left' = left
                     /\ UNCHANGED triggered_recompile
                ELSE /\ triggered_recompile' = (IF next THEN TRUE ELSE triggered_recompile)
                     /\ node' = parent[node]
                     /\ siblings_left' = SiblingsOf(parent[node])

\* One iteration of compile_all's loop.
CompileAllIter ==
    /\ pc = "compile_loop"
    /\ evals' = Append(evals, [target |-> ti, n |-> node])
    /\ IF NeedsCompile(fs, nodes[node], triggered_recompile)
       THEN \E ok \in BOOLEAN :
            /\ cmds' = Append(cmds, Command("compile", node, "", <<>>,
                                            collect_modules(children, nodes, node, <<>>), ok))
            /\ IF RunRaises(ok)
               THEN Fail("CommandFailed") /\ UNCHANGED <<fs, cursor>>
               ELSE /\ fs' = CompileWrites(fs, nodes[node])
                    /\ compiles' = compiles + 1
                    /\ triggered_recompile_next' = TRUE
                    /\ Advance(TRUE)
       ELSE /\ Advance(triggered_recompile_next)
            /\ UNCHANGED <<fs, cmds, compiles, triggered_recompile_next>>
    /\ UNCHANGED <<world, ti, sourcesOf, hu_left, graph>>

\* ShouldLink with '>=' for '>': link whether or not anything was compiled.
ShouldLinkAlways(count) == count >= 0

\* The test of link: there is something to link.
ShouldLink(count) == count > 0

\* link, and the end of the iteration of make_targets' loop.
Link ==
    /\ pc = "link"
    /\ IF ShouldLink(compiles)
       THEN \E ok \in BOOLEAN :
            /\ cmds' = Append(cmds, Command("link", root_node, "",
                                            collect_objects(children, nodes, root_node, <<>>),
                                            <<>>, ok))
            /\ IF RunRaises(ok)
               THEN Fail("CommandFailed") /\ UNCHANGED <<fs, ti>>
               ELSE /\ fs' = [fs EXCEPT !.exe = @ \cup {options.targets[ti].name}]
                    /\ NextTarget
       ELSE NextTarget /\ UNCHANGED <<fs, cmds>>
    /\ UNCHANGED <<world, sourcesOf, hu_left, graph, cursor, evals>>

\* What make_targets does after its loop: the 'run' argument.
RunTarget ==
    /\ pc = "target"
    /\ ti > Len(options.targets)
    /\ IF args.run = ""
       THEN pc' = "done" /\ UNCHANGED <<err, cmds>>
       ELSE IF ~(\E t \in DOMAIN options.targets : options.targets[t].name = args.run)
       THEN Fail("InvalidRunTarget") /\ UNCHANGED cmds
       ELSE \E ok \in {b \in BOOLEAN : b => args.run \in fs.exe} :
            /\ cmds' = Append(cmds, [kind |-> "run", target |-> 0, n |-> None,
                                     header |-> args.run, objs |-> <<>>, mods |-> <<>>,
                                     ok |-> ok])
            /\ IF RunRaises(ok) THEN Fail("CommandFailed") ELSE pc' = "done" /\ err' = err
    /\ UNCHANGED <<world, fs, ti, sourcesOf, hu_left, graph, cursor, evals>>

Next ==
    \/ MakeTargets
    \/ GenClasses
    \/ MakeHeaderUnits
    \/ BuildDependencyTree
    \/ BuildCompileTree
    \/ CompileAllBegin
    \/ CompileAllIter
    \/ Link
    \/ RunTarget

(***************************************************************************)
(* The runs considered: Bakerfiles, classified sources, arguments and      *)
(* file systems                                                            *)
(***************************************************************************)
\* What classify returns for a source file, but for data['post'].
File(stem, ext, type, module, hu) ==
    [dir |-> <<"m">>, stem |-> stem, ext |-> ext, type |-> type,
     module |-> module, header_units |-> hu, post |-> <<>>]

fMain == File("main", ".cpp", "plain", NoModule, {})

fMainHu == File("main", ".cpp", "plain", NoModule, {"vector"})

fUtil == File("util", ".cpp", "plain", NoModule, {})

fUtil2 == File("util2", ".cpp", "plain", NoModule, {})

fA == File("a", ".cppm", "module", Name("A", ""), {})

fA2 == File("a2", ".cppm", "module", Name("A", ""), {})

fAx == File("ax", ".cppm", "module_partition", Name("A", "x"), {})

fAx2 == File("ax2", ".cppm", "module_partition", Name("A", "x"), {})

fAImpl == File("a_impl", ".cpp", "module_impl", Name("A", ""), {})

fB == File("b", ".cppm", "module", Name("B", ""), {"vector"})

fC == File("c", ".cppm", "module", Name("C", ""), {})

fD == File("d", ".cppm", "module", Name("D", ""), {})

fMainCppm == File("main", ".cppm", "plain", NoModule, {})

fBadSuffix == File("x", ".cc", "plain", NoModule, {})

fNoDir == [File("y", ".cpp", "plain", NoModule, {}) EXCEPT !.dir = <<>>]

idA == Str("A", "")

idB == Str("B", "")

idC == Str("C", "")

idD == Str("D", "")

idAx == Str("A", "x")

idZ == Str("Z", "")

\* The source lists whose import declarations are generated, each with the
\* identifiers its sources may import.
Projects ==
    { [files |-> <<fMainHu>>, idents |-> {idZ}],
      [files |-> <<fMain, fA>>, idents |-> {idA, idZ}],
      [files |-> <<fMain, fA, fA2>>, idents |-> {idA}],
      [files |-> <<fMain, fAx, fAx2>>, idents |-> {idAx}],
      [files |-> <<fMain, fB, fAx>>, idents |-> {idB, idAx, idZ}],
      [files |-> <<fMain, fA, fAx, fB>>, idents |-> {idA, idAx, idB}],
      [files |-> <<fMain, fUtil, fA, fAImpl>>, idents |-> {idA, idAx}],
      [files |-> <<fMain, fUtil, fUtil2, fC, fD>>, idents |-> {idC, idD}],
      [files |-> <<fA, fMain>>, idents |-> {}],
      [files |-> <<fMainCppm>>, idents |-> {}],
      [files |-> <<fMain, fBadSuffix>>, idents |-> {}],
      [files |-> <<fMain, fNoDir>>, idents |-> {}] }

\* The import declarations of fA project: (file, identifier) in file order.
ImportSeqs(P) ==
    LET Pairs == {[file |-> i, id |-> x] : i \in DOMAIN P.files, x \in P.idents}
    IN  UNION {{s \in [1..e -> Pairs] : \A i \in 1..(e - 1) : s[i].file <= s[i + 1].file} :
               e \in 0..MaxImports}

\* The classified sources of fA project under the import declarations s.
Sources(P, s) ==
    [i \in DOMAIN P.files |->
        LET mine == SelectSeq(s, LAMBDA x : x.file = i)
        IN  [P.files[i] EXCEPT !.post = [k \in DOMAIN mine |-> mine[k].id]]]

Target(name, sources) == [name |-> name, is_list |-> TRUE, sources |-> sources]

AllSources(targets) == UNION {Range(targets[t].sources) : t \in DOMAIN targets}

\* A file system in which every source of the targets is old and every
\* artifact has the state `art`.
FileSystem(targets, art, hu, exe) ==
    LET S == AllSources(targets)
    IN  [src |-> [path \in {SrcPath(x) : x \in S} |-> Old],
         obj |-> [path \in {ObjPath(x) : x \in S} |-> art],
         bmi |-> [path \in {ObjPath(x) : x \in S} |->
                    IF \E x \in S : ObjPath(x) = path /\ IsModuleType(x.type)
                    THEN art ELSE Absent],
         hu |-> hu,
         exe |-> exe]

Fresh(targets) == FileSystem(targets, Absent, {}, {})

UpToDate(targets) ==
    FileSystem(targets, Old, UNION {x.header_units : x \in AllSources(targets)},
               {targets[t].name : t \in DOMAIN targets})

Args(rebuild, mode, run) == [rebuild |-> rebuild, mode |-> mode, run |-> run]

Bakerfile(targets) == [is_dict |-> TRUE, targets |-> targets]

\* With(file, post): the classified source whose imports are post.
With(file, imports) == [file EXCEPT !.post = imports]

\* Every state of the sources and artifacts of the targets.
FileSystems(targets) ==
    LET S == AllSources(targets)
        Objs == {ObjPath(x) : x \in S}
        Bmis == {ObjPath(x) : x \in {y \in S : IsModuleType(y.type)}}
    IN  { [src |-> src, obj |-> obj,
           bmi |-> [path \in Objs |-> IF path \in Bmis THEN bmi[path] ELSE Absent],
           hu |-> {}, exe |-> {}]
          : src \in [{SrcPath(x) : x \in S} -> {Old, Now}],
            obj \in [Objs -> {Absent, Old, Now}],
            bmi \in [Bmis -> {Absent, Old, Now}] }

\* The source lists built in every state of the file system.
SmallSources ==
    { <<With(fMain, <<idA>>), fUtil, fA>>,
      <<fMain, With(fUtil, <<idA>>), fA>> }

\* The targets of the Bakerfiles that have several.
SmallTargets(name) ==
    { Target(name, <<With(fMainHu, <<idA>>), fA>>),
      Target(name, <<With(fMainHu, <<idZ>>)>>),
      Target(name, <<With(fMain, <<idAx>>), fAx>>),
      Target(name, <<fB, fMain>>),
      [name |-> name, is_list |-> FALSE, sources |-> <<>>] }

\* The state in which Baker.__init__ calls make_targets.
Start(o, a, f) ==
    /\ options = o
    /\ args = a
    /\ fs = f
    /\ fs0 = f
    /\ pc = "make_targets"
    /\ ti = 1
    /\ nodes = <<>>
    /\ classes = EmptyClasses
    /\ root_node = None
    /\ header_units = {}
    /\ hu_left = {}
    /\ children = <<>>
    /\ parent = <<>>
    /\ post = <<>>
    /\ node_depth = <<>>
    /\ last_node = None
    /\ last_node_depth = -1
    /\ node = None
    /\ siblings_left = NoList
    /\ triggered_recompile = FALSE
    /\ triggered_recompile_next = FALSE
    /\ compiles = 0
    /\ err = "none"
    /\ cmds = <<>>
    /\ evals = <<>>
    /\ reach = <<>>

\* One target with generated imports: built from nothing, rebuilt in full,
\* and built again with nothing changed.
InitGraph ==
    \E P \in Projects : \E s \in ImportSeqs(P) :
        LET targets == <<Target("t1", Sources(P, s))>>
        IN  \/ Start(Bakerfile(targets), Args(FALSE, "build", ""), Fresh(targets))
            \/ Start(Bakerfile(targets), Args(TRUE, "build", ""), UpToDate(targets))
            \/ Start(Bakerfile(targets), Args(FALSE, "build", ""), UpToDate(targets))

\* The generated targets, fully built, with exactly one source modified since.
InitTouched ==
    \E P \in Projects : \E s \in ImportSeqs(P) : \E i \in DOMAIN P.files :
        LET targets == <<Target("t1", Sources(P, s))>>
        IN  Start(Bakerfile(targets), Args(FALSE, "build", ""),
                  [UpToDate(targets) EXCEPT !.src[SrcPath(P.files[i])] = Now])

\* Small targets in every state of the file system.
InitFiles ==
    \E sources \in SmallSources : \E rebuild \in BOOLEAN :
        \E f \in FileSystems(<<Target("t1", sources)>>) :
            Start(Bakerfile(<<Target("t1", sources)>>), Args(rebuild, "build", ""), f)

\* Bakerfiles of one and two targets under every argument, and a Bakerfile
\* whose targets are no dict.
InitTargets ==
    \/ \E targets \in {<<t1>> : t1 \in SmallTargets("t1")}
                      \cup {<<t1, t2>> : t1 \in SmallTargets("t1"), t2 \in SmallTargets("t2")} :
       \E mode \in {"build", "deptree", "tree"} : \E run \in {"", "t1", "zz"} :
           \/ Start(Bakerfile(targets), Args(FALSE, mode, run), Fresh(targets))
           \/ Start(Bakerfile(targets), Args(FALSE, mode, run), UpToDate(targets))
    \/ Start([is_dict |-> FALSE, targets |-> <<>>], Args(FALSE, "build", ""), Fresh(<<>>))

Init == InitGraph \/ InitTouched \/ InitFiles \/ InitTargets

Spec == Init /\ [][Next]_vars

(***************************************************************************)
(* The reduced tree and the history of the run                             *)
(***************************************************************************)
\* A target's graph is resolved and reduced: compile_all or link is at work.
TreeReady == pc \in {"compile_all", "compile_loop", "link"}

\* The Nodes held by the children list of n.
Kids(n) == {children[n][index].i : index \in DOMAIN children[n]}

RECURSIVE Subtree(_)
\* n and every Node below it in the tree.
Subtree(n) == {n} \cup UNION {Subtree(k) : k \in Kids(n)}

TreeNodes == Subtree(root_node)

RECURSIVE Ancestors(_)
\* The Nodes on the parent chain of n, n excluded.
Ancestors(n) == IF parent[n] = None THEN {} ELSE {parent[n]} \cup Ancestors(parent[n])

\* The number of child positions of the tree that hold n.
Positions(n) ==
    Cardinality({<<k, index>> \in TreeNodes \X (1..Len(nodes)) :
                    index \in DOMAIN children[k] /\ children[k][index].i = n})

\* The Nodes of target t for which a compile was issued.
Compiled(t) == {cmds[k].n : k \in {j \in DOMAIN cmds : cmds[j].kind = "compile" /\ cmds[j].target = t}}

Linked(t) == \E k \in DOMAIN cmds : cmds[k].kind = "link" /\ cmds[k].target = t

(***************************************************************************)
(* C1 - full rebuild                                                       *)
(***************************************************************************)
\* C1: when a full rebuild is requested, by the time the link step runs a
\* compile has been issued for every Node of the reduced tree.
C1_RebuildCompilesEveryNode ==
    (pc = "link" /\ args.rebuild) => \A n \in TreeNodes : n \in Compiled(ti)

(***************************************************************************)
(* C2 - one touched leaf                                                   *)
(***************************************************************************)
\* The run began fully built but for the source of Node n, newer than its
\* artifacts.
OnlyTouched(n) ==
    /\ \A k \in DOMAIN nodes :
          /\ fs0.src[SrcPath(nodes[k])] = (IF k = n THEN Now ELSE Old)
          /\ fs0.obj[ObjPath(nodes[k])] = Old
          /\ IsModuleType(nodes[k].type) => fs0.bmi[ObjPath(nodes[k])] = Old
    /\ Now > Old

\* C2: with no rebuild flag, a fully built target and one leaf of the tree
\* touched, the run compiles that leaf and its ancestors and nothing else.
C2_TouchedLeafCompilesItsBranchOnly ==
    (pc = "link" /\ ~args.rebuild) =>
        \A n \in TreeNodes :
            (Kids(n) = {} /\ OnlyTouched(n)) => Compiled(ti) = {n} \cup Ancestors(n)

(***************************************************************************)
(* C3 - one root, every classified Node once                               *)
(***************************************************************************)
\* C3: once the tree is built and reduced, the root is the first source and
\* has no parent, and every classified Node of the target but the root is held
\* by exactly one child position of the tree, the root by none.
C3_EveryClassifiedNodeOnce ==
    TreeReady =>
        /\ root_node = 1
        /\ parent[root_node] = None
        /\ \A n \in DOMAIN nodes : Positions(n) = (IF n = root_node THEN 0 ELSE 1)

(***************************************************************************)
(* C4 - depth and parent in the reduced tree                               *)
(***************************************************************************)
\* The visits of fill_children's second loop to n.
Visits(n) == {k \in DOMAIN reach : reach[k].child = n}

\* The depth of the deepest visit to n, as a depth of n itself.
MaxReach(n) == 1 + (CHOOSE x \in {reach[k].depth : k \in Visits(n)} :
                        \A k \in Visits(n) : reach[k].depth <= x)

\* The first of the deepest visits to n.
FirstDeepest(n) ==
    CHOOSE k \in Visits(n) :
        /\ reach[k].depth + 1 = MaxReach(n)
        /\ \A j \in Visits(n) : reach[j].depth + 1 = MaxReach(n) => k <= j

RECURSIVE TreeDepth(_)
\* The distance of n from the root along the parent references.
TreeDepth(n) == IF parent[n] = None THEN 0 ELSE 1 + TreeDepth(parent[n])

\* C4: every Node that fill_children reached lies in the reduced tree under its
\* parent, at the greatest depth it was reached at, and its parent is the Node
\* that first reached it at that depth.
C4_DepthIsDeepestReach ==
    TreeReady =>
        \A n \in DOMAIN nodes :
            Visits(n) # {} =>
                /\ n \in TreeNodes
                /\ n \in Kids(parent[n])
                /\ TreeDepth(n) = MaxReach(n)
                /\ parent[n] = reach[FirstDeepest(n)].parent

\* A Node reached at two depths, and reached at its greatest depth by two
\* different Nodes.
C4_Witness ==
    /\ TreeReady
    /\ \E n \in DOMAIN nodes : \E j, k \in Visits(n) :
          /\ reach[j].depth + 1 = MaxReach(n)
          /\ reach[k].depth + 1 = MaxReach(n)
          /\ reach[j].parent # reach[k].parent
          /\ \E i \in Visits(n) : reach[i].depth + 1 < MaxReach(n)

(***************************************************************************)
(* C5 - fix_module_partition_deps twice                                    *)
(***************************************************************************)
\* data['post'] after one more run of fix_module_partition_deps on the tree.
PostAgain == fix_module_partition_deps(post, children, nodes, classes, root_node)

\* The positions of n's children list that hold a partition.
PartitionKids(n) ==
    {index \in DOMAIN children[n] : nodes[children[n][index].i].type = "module_partition"}

\* s is the beginning of t.
IsPrefix(s, t) == Len(s) <= Len(t) /\ \A k \in DOMAIN s : s[k] = t[k]

\* C5: a second run of fix_module_partition_deps leaves the list of every
\* module interface of the tree as the first run left it.
C5_MergeIdempotent ==
    TreeReady => \A n \in TreeNodes : nodes[n].type = "module" => PostAgain[n] = post[n]

\* C5 amended: a second run only appends to the list of a module interface of
\* the tree, and it appends nothing exactly when every partition child of the
\* interface has an empty list; the list of no other Node changes.
C5_MergeAppendsAgain ==
    TreeReady =>
        \A n \in DOMAIN nodes :
            /\ IsPrefix(post[n], PostAgain[n])
            /\ (n \in TreeNodes /\ nodes[n].type = "module") =>
                  (PostAgain[n] = post[n] <=> \A index \in PartitionKids(n) :
                                                  post[children[n][index].i] = <<>>)
            /\ ~(n \in TreeNodes /\ nodes[n].type = "module") => PostAgain[n] = post[n]

\* A module interface of the tree has a partition child that imports something.
C5_Witness ==
    /\ TreeReady
    /\ \E n \in TreeNodes :
          /\ nodes[n].type = "module"
          /\ \E index \in PartitionKids(n) : post[children[n][index].i] # <<>>

(***************************************************************************)
(* C6 - importing a partition of another module                            *)
(***************************************************************************)
Resolvable(id) == Key(id) \in (DOMAIN classes.module) \cup (DOMAIN classes.module_partition)

\* The Node a resolvable identifier names.
Named(id) ==
    IF Key(id) \in DOMAIN classes.module THEN classes.module[Key(id)]
    ELSE classes.module_partition[Key(id)]

\* The Nodes n depends on: those its identifiers name and, for the root, the
\* other plain sources and the implementation units.
DependsOn(n) ==
    {Named(id) : id \in {x \in Range(nodes[n].post) : Resolvable(x)}}
    \cup (IF n = root_node
          THEN (Range(classes.plain) \ {root_node})
               \cup UNION {Range(classes.module_impl[k]) : k \in DOMAIN classes.module_impl}
          ELSE {})

RECURSIVE Closure(_)
\* The Nodes that depend, directly or not, on nothing outside the set.
Closure(S) ==
    LET T == S \cup UNION {DependsOn(n) : n \in S}
    IN  IF T = S THEN S ELSE Closure(T)

Reachable == Closure({root_node})

\* n imports a known partition of a module that is not its own.
ForeignImport(n) ==
    \E id \in Range(nodes[n].post) :
        /\ Key(id) \in DOMAIN classes.module_partition
        /\ Key(id) \notin DOMAIN classes.module
        /\ nodes[n].module.m # id.m

UnknownImport(n) == \E id \in Range(nodes[n].post) : ~Resolvable(id)

ImportCycle == \E n \in Reachable : n \in Closure(DependsOn(n))

\* The resolution of the target's graph has ended, in an error or not.
ResolutionEnded ==
    \/ pc \in {"compile_tree", "compile_all", "compile_loop", "link"}
    \/ pc = "error" /\ err \in {"ForeignPartition", "UnknownModule", "RecursionError"}

\* C6: when a Node reachable from the root imports a known partition of
\* another module, resolution stops with the foreign-partition-import error
\* and no source of the target is compiled.
C6_ForeignImportIsThatError ==
    (ResolutionEnded /\ \E n \in Reachable : ForeignImport(n)) =>
        /\ pc = "error"
        /\ err = "ForeignPartition"
        /\ Compiled(ti) = {}

\* C6 amended: resolution then stops with an error and no source of the target
\* is compiled; the error is the foreign-partition-import error unless the
\* depth-first resolution first met an identifier that names nothing or an
\* import cycle, and then it is the error of that.
C6_ForeignImportStopsResolution ==
    (ResolutionEnded /\ \E n \in Reachable : ForeignImport(n)) =>
        /\ pc = "error"
        /\ Compiled(ti) = {}
        /\ \/ err = "ForeignPartition"
           \/ err = "UnknownModule" /\ \E n \in Reachable : UnknownImport(n)
           \/ err = "RecursionError" /\ ImportCycle

\* A module interface imports a partition of another module and nothing is
\* unresolved: the run ended with the foreign-partition-import error.
C6_Witness ==
    /\ pc = "error"
    /\ err = "ForeignPartition"
    /\ \E n \in Reachable : ForeignImport(n)
    /\ \A n \in Reachable : ForeignImport(n) => nodes[n].type = "module"

(***************************************************************************)
(* C7 - graph errors come before every compiler invocation                 *)
(***************************************************************************)
\* C7: when the run ends with a graph error, no command has been issued in it.
C7_GraphErrorBeforeAnyCommand ==
    (pc = "error" /\ err \in {"UnknownModule", "ForeignPartition", "RootNotPlain",
                               "SourcesNotList"})
        => cmds = <<>>

(***************************************************************************)
(* C8 - duplicate module and partition names                               *)
(***************************************************************************)
\* Two sources of the target are interfaces of one module, or one partition.
DuplicateNames(sources) ==
    \E i, j \in DOMAIN sources :
        /\ i # j
        /\ IsModuleType(sources[i].type)
        /\ sources[i].type = sources[j].type
        /\ sources[i].module = sources[j].module

\* C8: a target with two interfaces of one module, or two units of one
\* partition, does not get past classification and resolution.
C8_DuplicateNamesAreFatal ==
    pc \in {"compile_tree", "compile_all", "compile_loop", "link"} => ~DuplicateNames(nodes)

(***************************************************************************)
(* C9 - fail fast                                                          *)
(***************************************************************************)
SomeCommandFailed == \E k \in DOMAIN cmds : ~cmds[k].ok

\* C9: a command that returns a non-zero status ends the run, and from then on
\* no command is issued and no artifact changes.
C9_FailFast ==
    [][/\ SomeCommandFailed => (cmds' = cmds /\ fs' = fs)
       /\ SomeCommandFailed' => (pc' = "error" /\ ~cmds'[Len(cmds')].ok /\ fs' = fs)]_vars

\* A command failed after two commands of the run had succeeded and written
\* their artifacts.
C9_Witness ==
    /\ pc = "error"
    /\ SomeCommandFailed
    /\ Len(cmds) >= 3
    /\ fs # fs0

(***************************************************************************)
(* C10 - when the linker runs, and on what                                 *)
(***************************************************************************)
\* The build of target t has ended.
Ended(t) == t < ti \/ (t = ti /\ pc \in {"error", "done"})

Issued(t) == \E k \in DOMAIN cmds : cmds[k].kind = "compile" /\ cmds[k].target = t

\* The last command is the link of the tree the variables still hold.
JustLinked ==
    /\ cmds # <<>>
    /\ cmds[Len(cmds)].kind = "link"
    /\ \/ pc = "error" /\ cmds[Len(cmds)].target = ti
       \/ pc \in {"target", "done"} /\ cmds[Len(cmds)].target = ti - 1

\* The object list is a pre-order walk of the tree: the root first, every
\* Node of the tree in it, one entry for each child position, and every
\* Node after its parent.
PreOrder(objs) ==
    /\ objs[1] = ObjPath(nodes[root_node])
    /\ Range(objs) = {ObjPath(nodes[n]) : n \in TreeNodes}
    /\ \A n \in TreeNodes \ {root_node} :
          \E i, j \in DOMAIN objs :
              i < j /\ objs[i] = ObjPath(nodes[parent[n]]) /\ objs[j] = ObjPath(nodes[n])

\* C10: the linker is invoked for a target if and only if a compile was issued
\* for it, and then on the pre-order walk of the tree.
C10_LinkIffCompileIssued ==
    /\ \A t \in DOMAIN options.targets : Ended(t) => (Linked(t) <=> Issued(t))
    /\ JustLinked => PreOrder(cmds[Len(cmds)].objs)

\* C10 amended: the linker is invoked for a target if and only if a compile
\* was issued for it and every compile issued for it returned zero, and then
\* on the pre-order walk of the tree.
C10_LinkIffCompilesSucceeded ==
    /\ \A t \in DOMAIN options.targets :
          Ended(t) =>
              (Linked(t) <=>
                  /\ Issued(t)
                  /\ \A k \in DOMAIN cmds :
                        (cmds[k].kind = "compile" /\ cmds[k].target = t) => cmds[k].ok)
    /\ JustLinked => PreOrder(cmds[Len(cmds)].objs)

\* A target of several Nodes was linked after only some of them were compiled.
C10_Witness ==
    /\ JustLinked
    /\ Cardinality(TreeNodes) >= 3
    /\ Compiled(cmds[Len(cmds)].target) # TreeNodes

(***************************************************************************)
(* C11 - the four-source example                                           *)
(***************************************************************************)
\* main.cpp, util.cpp, a.cppm (module A) and a_impl.cpp (implementation of A,
\* imports A).
ExampleSources == <<fMain, fUtil, fA, With(fAImpl, <<idA>>)>>

\* The example target is being built, from a state with no artifacts.
ExampleBuild ==
    /\ nodes = ExampleSources
    /\ fs0 = Fresh(<<Target("t1", ExampleSources)>>)

\* The Nodes of the compile commands of target t, in the order issued.
RECURSIVE CompiledUpTo(_, _)
CompiledUpTo(t, k) ==
    IF k = 0 THEN <<>>
    ELSE IF cmds[k].kind = "compile" /\ cmds[k].target = t
    THEN Append(CompiledUpTo(t, k - 1), cmds[k].n)
    ELSE CompiledUpTo(t, k - 1)

CompileSeq(t) == CompiledUpTo(t, Len(cmds))

\* Node x has a compile command before the first compile command of Node y.
Before(t, x, y) ==
    \E i, j \in DOMAIN CompileSeq(t) :
        i < j /\ CompileSeq(t)[i] = x /\ CompileSeq(t)[j] = y

\* C11: in the example the root has util.cpp and the interface of A as its
\* children, util.cpp and a.cppm are compiled before a_impl.cpp and a_impl.cpp
\* before main.cpp, all four are compiled and all four objects are linked.
C11_ExampleAsStated ==
    /\ (ExampleBuild /\ TreeReady) => Kids(root_node) = {2, 3}
    /\ (ExampleBuild /\ pc = "link") =>
           /\ Compiled(ti) = {1, 2, 3, 4}
           /\ Before(ti, 2, 4) /\ Before(ti, 3, 4) /\ Before(ti, 4, 1)
    /\ (ExampleBuild /\ JustLinked) =>
           Range(cmds[Len(cmds)].objs) = {ObjPath(ExampleSources[n]) : n \in 1..4}

\* C11 amended: in the example the root has util.cpp and a_impl.cpp as its
\* children and a.cppm is the child of a_impl.cpp; when no command fails the
\* compiles are a.cppm, a_impl.cpp, util.cpp, main.cpp in this order, and the
\* link is handed the objects of main, util, a_impl and a.
C11_ExampleAsBuilt ==
    /\ (ExampleBuild /\ TreeReady) =>
           /\ children[1] = <<NodeRef(2), NodeRef(4)>>
           /\ children[4] = <<NodeRef(3)>>
           /\ children[2] = <<>> /\ children[3] = <<>>
    /\ (ExampleBuild /\ pc = "link") => CompileSeq(ti) = <<3, 4, 2, 1>>
    /\ (ExampleBuild /\ JustLinked) =>
           cmds[Len(cmds)].objs = [k \in 1..4 |-> ObjPath(ExampleSources[<<1, 2, 4, 3>>[k]])]

\* The example was built and linked, every command succeeding.
C11_Witness ==
    /\ ExampleBuild
    /\ JustLinked
    /\ pc = "done"
    /\ \A k \in DOMAIN cmds : cmds[k].ok

(***************************************************************************)
(* C12 - the edges clip_redundant keeps                                    *)
(***************************************************************************)
\* The Node k steps up the parent references from n, None past the root.
RECURSIVE Up(_, _)
Up(n, k) == IF k = 0 \/ n = None THEN n ELSE Up(parent[n], k - 1)

\* The Nodes within k edges of the children lists below the Nodes of S.
RECURSIVE Within(_, _)
Within(S, k) == IF k = 0 THEN S ELSE Within(S \cup UNION {Kids(n) : n \in S}, k - 1)

\* The Nodes reachable from the root through the children lists.
Retained == Within({root_node}, Len(nodes))

\* C12: after clip_redundant every child a reachable Node still holds has that
\* Node as its parent, every reachable Node but the root is in the children
\* list of its parent, and the edges kept have no cycle: the parent references
\* lead from every reachable Node to the root.
C12_RetainedEdgesAreOwned ==
    TreeReady =>
        /\ \A n \in Retained : \A index \in DOMAIN children[n] :
              parent[children[n][index].i] = n
        /\ \A n \in Retained \ {root_node} : parent[n] # None /\ n \in Kids(parent[n])
        /\ parent[root_node] = None
        /\ \A n \in Retained : \E k \in 0..(Len(nodes) - 1) : Up(n, k) = root_node

\* clip_redundant dropped an edge of a Node that is not the root: the child
\* belongs to another Node.
C12_Witness ==
    /\ TreeReady
    /\ \E k \in DOMAIN reach :
          /\ reach[k].parent # root_node
          /\ reach[k].parent \in Retained
          /\ reach[k].child \notin Kids(reach[k].parent)

(***************************************************************************)
(* C13 to C16 - the walk of compile_all                                    *)
(***************************************************************************)
\* The Nodes compile_all has evaluated for target t, in order.
Evaluated(t) ==
    LET mine == SelectSeq(evals, LAMBDA e : e.target = t)
    IN  [k \in DOMAIN mine |-> mine[k].n]

\* compile_all is at work on the tree, or has returned.
Walking == pc \in {"compile_loop", "link"}

\* A compile command of the target failed: compile_all was left by the
\* exception of Baker.run.
CompileFailed ==
    /\ pc = "error"
    /\ err = "CommandFailed"
    /\ cmds[Len(cmds)].kind = "compile"
    /\ cmds[Len(cmds)].target = ti

\* C13: when compile_all evaluates a Node, it has already evaluated every Node
\* of the subtree below it.
C13_SubtreeEvaluatedFirst ==
    Walking =>
        \A k \in DOMAIN Evaluated(ti) :
            \A d \in Subtree(Evaluated(ti)[k]) \ {Evaluated(ti)[k]} :
                \E j \in 1..(k - 1) : Evaluated(ti)[j] = d

\* Every ancestor of a compiled Node has a compile command after it.
AncestorsCompiledLater ==
    \A i \in DOMAIN cmds :
        (cmds[i].kind = "compile" /\ cmds[i].target = ti /\ cmds[i].ok) =>
            \A a \in Ancestors(cmds[i].n) :
                \E j \in DOMAIN cmds :
                    j > i /\ cmds[j].kind = "compile" /\ cmds[j].target = ti /\ cmds[j].n = a

C15_DependencyBeforeDependent ==
    Walking =>
        /\ \A k \in 1..(Len(Evaluated(ti)) - 1) :
              TreeDepth(Evaluated(ti)[k]) >= TreeDepth(Evaluated(ti)[k + 1])
        /\ \A e \in DOMAIN reach : \A i, j \in DOMAIN Evaluated(ti) :
              (Evaluated(ti)[i] = reach[e].parent /\ Evaluated(ti)[j] = reach[e].child)
                  => j < i

\* Both ends of an edge that clip_redundant dropped were evaluated.
C15_Witness ==
    /\ pc = "link"
    /\ \E e \in DOMAIN reach :
          /\ reach[e].child \notin Kids(reach[e].parent)
          /\ reach[e].parent \in Range(Evaluated(ti))
          /\ reach[e].child \in Range(Evaluated(ti))

\* The visits of fill_children's second loop that went deepest.
DeepestVisits == {k \in DOMAIN reach : \A j \in DOMAIN reach : reach[j].depth <= reach[k].depth}

\* The Node fill_children discovered first at the greatest depth: the root
\* when it has no children.
FirstDiscoveredDeepest ==
    IF reach = <<>> THEN root_node
    ELSE reach[CHOOSE k \in DeepestVisits : \A j \in DeepestVisits : k <= j].child

\* The root was evaluated once, as the last Node.
RootEvaluatedLast ==
    /\ Evaluated(ti) # <<>>
    /\ Evaluated(ti)[Len(Evaluated(ti))] = root_node
    /\ \A k \in 1..(Len(Evaluated(ti)) - 1) : Evaluated(ti)[k] # root_node

\* The walk began at the first-discovered deepest Node and list.remove found
\* the Node in the list each time.
StartsDeepestAndRemoves ==
    /\ err # "ValueError"
    /\ TreeReady => last_node = FirstDiscoveredDeepest
    /\ (Walking /\ Evaluated(ti) # <<>>) => Evaluated(ti)[1] = last_node
    /\ (pc = "compile_loop" /\ Evaluated(ti) = <<>>) => node = last_node

TreeOf == IF pc \in {"target", "done"} THEN ti - 1 ELSE ti

\* The tree of target TreeOf is built: compile_all or link is at work on it,
\* or has returned, or was left by a failing command.
TreeBuilt ==
    \/ TreeReady
    \/ pc \in {"target", "done"} /\ ti > 1 /\ args.mode = "build"
    \/ /\ pc = "error"
       /\ err = "CommandFailed"
       /\ cmds[Len(cmds)].kind \in {"compile", "link"}

\* When the run began the artifacts of Node n were there and not older than
\* its source.
UpToDateAtStart(n) ==
    /\ fs0.obj[ObjPath(nodes[n])] # Absent
    /\ fs0.obj[ObjPath(nodes[n])] >= fs0.src[SrcPath(nodes[n])]
    /\ IsModuleType(nodes[n].type) =>
          /\ fs0.bmi[ObjPath(nodes[n])] # Absent
          /\ fs0.bmi[ObjPath(nodes[n])] >= fs0.src[SrcPath(nodes[n])]

\* C17: with no rebuild requested and every Node of the tree up to date, equal
\* times included, no compile and no link is issued for the target.
C17_NoOpRebuild ==
    (TreeBuilt /\ ~args.rebuild /\ \A n \in TreeNodes : UpToDateAtStart(n)) =>
        \A k \in DOMAIN cmds :
            cmds[k].target = TreeOf => cmds[k].kind \notin {"compile", "link"}

\* The build of an up-to-date target of several Nodes is over, one of them
\* with a source exactly as old as its object.
C17_Witness ==
    /\ pc = "done"
    /\ TreeBuilt
    /\ ~args.rebuild
    /\ \A n \in TreeNodes : UpToDateAtStart(n)
    /\ Cardinality(TreeNodes) >= 2
    /\ \E n \in TreeNodes : fs0.obj[ObjPath(nodes[n])] = fs0.src[SrcPath(nodes[n])]
    /\ \E n \in TreeNodes : fs0.src[SrcPath(nodes[n])] = Now

\* C18: no Node is compiled more than once in the build of a target: no two
\* compiles that ran to their end are of one Node.
C18_NoNodeCompiledTwice ==
    \A i, j \in DOMAIN cmds :
        (/\ i < j
         /\ cmds[i].kind = "compile" /\ cmds[j].kind = "compile"
         /\ cmds[i].ok /\ cmds[j].ok
         /\ cmds[i].target = cmds[j].target)
            => cmds[i].n # cmds[j].n

\* The run began with no artifact on disk.
NoArtifactsAtStart ==
    /\ \A path \in DOMAIN fs0.obj : fs0.obj[path] = Absent /\ fs0.bmi[path] = Absent
    /\ fs0.hu = {} /\ fs0.exe = {}

\* The object paths the successful compile commands of the run have written.
ObjectsWritten ==
    {ObjPath(options.targets[cmds[k].target].sources[cmds[k].n]) :
        k \in {j \in DOMAIN cmds : cmds[j].kind = "compile" /\ cmds[j].ok}}

\* C19: in a build from no artifacts in which every command succeeds, every
\* object handed to the linker was written by a compile of the run.
C19_LinkedObjectsWereCompiled ==
    (NoArtifactsAtStart /\ \A k \in DOMAIN cmds : cmds[k].ok) =>
        \A k \in DOMAIN cmds :
            cmds[k].kind = "link" => Range(cmds[k].objs) \subseteq ObjectsWritten

\* C20: the module flags of a compile of Node n name every module interface
\* and partition that fill_children resolved as a child of n.
C20_FlagsCoverDirectImports ==
    Walking =>
        \A k \in DOMAIN cmds :
            (cmds[k].kind = "compile" /\ cmds[k].target = ti) =>
                \A e \in DOMAIN reach :
                    (reach[e].parent = cmds[k].n /\ IsModuleType(nodes[reach[e].child].type)) =>
                        \E f \in DOMAIN cmds[k].mods :
                            cmds[k].mods[f].module = nodes[reach[e].child].module

====
